---- MODULE Spec2Model ----
(***************************************************************************)
(* The study progression engine of EasyFlashcards2: the per-item stage     *)
(* machine (StudyType), the working list of study items (CardList), the    *)
(* bucket counts (Footer) and the interaction state machine that drives    *)
(* them from key events (World).                                           *)
(*                                                                         *)
(* Indices are 1-based here (Rust's are 0-based); token 0 stands for       *)
(* Option::None (the code uses usize::MAX for it in next_unstudied).       *)
(***************************************************************************)
EXTENDS Integers, Sequences, FiniteSets, TLC

\* ----------------------------------------------------------------- bounds
\* Largest number of flashcards in the set.
MaxCards == 2
\* Largest number of study items (cards times sides in use) in one session.
MaxItems == 2
\* Largest number of calls of CardList::fail in one session.
MaxWrong == 1
\* Largest number of wrong guesses counted within one presentation.
MaxGuesses == 2

\* Largest number of flashcards in a set whose list is only queried.
MaxDeck == 4

\* ------------------------------------------------------ program constants
\* FailCount is a u8 that saturates.
FailMax == 255
\* next_unstudied resamples at most this many times.
MaxSamples == 12

\* matching_answers_for draws at most this many texts for one answer box.
MaxDraws == 12

\* FooterColor, with its discriminants.
Black == 0
Red == 1
Yellow == 2
Green == 3
FooterColors == {Black, Red, Yellow, Green}

\* Side
Sides == {"Term", "Definition"}

\* RecallSettings { matching, text }
RecallSettingsSet == [matching : BOOLEAN, text : BOOLEAN]

\* Token(usize); NoToken is Option::None.
NoToken == 0

\* ------------------------------------------------------------- StudyType
Matching(b) == [mode |-> "Matching", rep |-> b]
Text(b) == [mode |-> "Text", rep |-> b]
\* Option<StudyType>::None
NoStudyType == [mode |-> "None", rep |-> FALSE]

\* Mutant: with both modes enabled an item starts at Text(false).
StudyType_first_TextFirst(recall_settings) ==
    IF recall_settings.text THEN Text(FALSE)
    ELSE IF recall_settings.matching THEN Matching(FALSE)
    ELSE NoStudyType

StudyType_first(recall_settings) ==
    IF recall_settings.matching THEN Matching(FALSE)
    ELSE IF recall_settings.text THEN Text(FALSE)
    ELSE NoStudyType

\* Mutant: the single-mode arms forget to look at the other mode.
StudyType_progress_IgnoreText(self, recall_settings) ==
    LET m == recall_settings.matching
        t == recall_settings.text
        r(next, color) == [next |-> next, color |-> color, bad |-> FALSE]
    IN  CASE self = Matching(FALSE) /\ m -> r(Matching(TRUE), Yellow)
          [] self = Matching(TRUE) /\ m -> r(NoStudyType, Green)
          [] self = Text(FALSE) /\ ~m /\ t -> r(Text(TRUE), Yellow)
          [] self = Text(TRUE) /\ ~m /\ t -> r(NoStudyType, Green)
          [] self = Text(FALSE) /\ m /\ t -> r(Text(TRUE), Yellow)
          [] self = Text(TRUE) /\ m /\ t -> r(NoStudyType, Green)
          [] OTHER -> [next |-> NoStudyType, color |-> Black, bad |-> TRUE]

\* Mutant: with both modes, Matching(false) skips Text(false).
StudyType_progress_Skip(self, recall_settings) ==
    LET m == recall_settings.matching
        t == recall_settings.text
        r(next, color) == [next |-> next, color |-> color, bad |-> FALSE]
    IN  CASE self = Matching(FALSE) /\ m /\ ~t -> r(Matching(TRUE), Yellow)
          [] self = Matching(TRUE) /\ m /\ ~t -> r(NoStudyType, Green)
          [] self = Text(FALSE) /\ ~m /\ t -> r(Text(TRUE), Yellow)
          [] self = Text(TRUE) /\ ~m /\ t -> r(NoStudyType, Green)
          [] self = Matching(FALSE) /\ m /\ t -> r(Text(TRUE), Yellow)
          [] self = Text(FALSE) /\ m /\ t -> r(Text(TRUE), Yellow)
          [] self = Text(TRUE) /\ m /\ t -> r(NoStudyType, Green)
          [] OTHER -> [next |-> NoStudyType, color |-> Black, bad |-> TRUE]

\* Mutant: with text only, one correct answer at Text(false) masters the item.
StudyType_progress_Short(self, recall_settings) ==
    LET m == recall_settings.matching
        t == recall_settings.text
        r(next, color) == [next |-> next, color |-> color, bad |-> FALSE]
    IN  CASE self = Matching(FALSE) /\ m /\ ~t -> r(Matching(TRUE), Yellow)
          [] self = Matching(TRUE) /\ m /\ ~t -> r(NoStudyType, Green)
          [] self = Text(FALSE) /\ ~m /\ t -> r(NoStudyType, Green)
          [] self = Text(TRUE) /\ ~m /\ t -> r(NoStudyType, Green)
          [] self = Matching(FALSE) /\ m /\ t -> r(Text(FALSE), Red)
          [] self = Text(FALSE) /\ m /\ t -> r(Text(TRUE), Yellow)
          [] self = Text(TRUE) /\ m /\ t -> r(NoStudyType, Green)
          [] OTHER -> [next |-> NoStudyType, color |-> Black, bad |-> TRUE]

\* (Option<StudyType>, FooterColor); bad is the unreachable!() arm.
StudyType_progress(self, recall_settings) ==
    LET m == recall_settings.matching
        t == recall_settings.text
        r(next, color) == [next |-> next, color |-> color, bad |-> FALSE]
    IN  CASE self = Matching(FALSE) /\ m /\ ~t -> r(Matching(TRUE), Yellow)
          [] self = Matching(TRUE) /\ m /\ ~t -> r(NoStudyType, Green)
          [] self = Text(FALSE) /\ ~m /\ t -> r(Text(TRUE), Yellow)
          [] self = Text(TRUE) /\ ~m /\ t -> r(NoStudyType, Green)
          [] self = Matching(FALSE) /\ m /\ t -> r(Text(FALSE), Red)
          [] self = Text(FALSE) /\ m /\ t -> r(Text(TRUE), Yellow)
          [] self = Text(TRUE) /\ m /\ t -> r(NoStudyType, Green)
          [] OTHER -> [next |-> NoStudyType, color |-> Black, bad |-> TRUE]

\* Mutant: Text(true) with both modes regresses into Black.
StudyType_regress_WrongColor(self, recall_settings) ==
    LET m == recall_settings.matching
        t == recall_settings.text
        r(next, color) == [some |-> TRUE, next |-> next, color |-> color]
    IN  CASE self = Matching(TRUE) /\ m /\ ~t -> r(Matching(FALSE), Black)
          [] self = Text(TRUE) /\ ~m /\ t -> r(Text(FALSE), Black)
          [] self = Text(FALSE) /\ m /\ t -> r(Matching(FALSE), Black)
          [] self = Text(TRUE) /\ m /\ t -> r(Text(FALSE), Black)
          [] OTHER -> [some |-> FALSE, next |-> self, color |-> Black]

\* Mutant: Text(true) with both modes drops back to the start.
StudyType_regress_ToStart(self, recall_settings) ==
    LET m == recall_settings.matching
        t == recall_settings.text
        r(next, color) == [some |-> TRUE, next |-> next, color |-> color]
    IN  CASE self = Matching(TRUE) /\ m /\ ~t -> r(Matching(FALSE), Black)
          [] self = Text(TRUE) /\ ~m /\ t -> r(Text(FALSE), Black)
          [] self = Text(FALSE) /\ m /\ t -> r(Matching(FALSE), Black)
          [] self = Text(TRUE) /\ m /\ t -> r(Matching(FALSE), Black)
          [] OTHER -> [some |-> FALSE, next |-> self, color |-> Black]

\* Mutant: the entry stage Matching(false) regresses to itself.
StudyType_regress_Floor(self, recall_settings) ==
    LET m == recall_settings.matching
        t == recall_settings.text
        r(next, color) == [some |-> TRUE, next |-> next, color |-> color]
    IN  CASE self = Matching(TRUE) /\ m /\ ~t -> r(Matching(FALSE), Black)
          [] self = Text(TRUE) /\ ~m /\ t -> r(Text(FALSE), Black)
          [] self = Text(FALSE) /\ m /\ t -> r(Matching(FALSE), Black)
          [] self = Text(TRUE) /\ m /\ t -> r(Text(FALSE), Red)
          [] self = Matching(FALSE) /\ m -> r(Matching(FALSE), Black)
          [] OTHER -> [some |-> FALSE, next |-> self, color |-> Black]

\* Mutant: Text(false) with both modes does not regress.
StudyType_regress_Stuck(self, recall_settings) ==
    LET m == recall_settings.matching
        t == recall_settings.text
        r(next, color) == [some |-> TRUE, next |-> next, color |-> color]
    IN  CASE self = Matching(TRUE) /\ m /\ ~t -> r(Matching(FALSE), Black)
          [] self = Text(TRUE) /\ ~m /\ t -> r(Text(FALSE), Black)
          [] self = Text(TRUE) /\ m /\ t -> r(Text(FALSE), Red)
          [] OTHER -> [some |-> FALSE, next |-> self, color |-> Black]

\* Mutant: no stage ever regresses.
StudyType_regress_Never(self, recall_settings) ==
    [some |-> FALSE, next |-> self, color |-> Black]

\* Option<(StudyType, FooterColor)>; some = FALSE is None.
StudyType_regress(self, recall_settings) ==
    LET m == recall_settings.matching
        t == recall_settings.text
        r(next, color) == [some |-> TRUE, next |-> next, color |-> color]
    IN  CASE self = Matching(TRUE) /\ m /\ ~t -> r(Matching(FALSE), Black)
          [] self = Text(TRUE) /\ ~m /\ t -> r(Text(FALSE), Black)
          [] self = Text(FALSE) /\ m /\ t -> r(Matching(FALSE), Black)
          [] self = Text(TRUE) /\ m /\ t -> r(Text(FALSE), Red)
          [] OTHER -> [some |-> FALSE, next |-> self, color |-> Black]

\* ------------------------------------------------------------- FailCount
\* Mutant: the increment wraps around like a plain u8 addition.
FailCount_inc_Wrap(n) == (n + 1) % (FailMax + 1)
\* u8::saturating_add(1)
FailCount_inc(n) == IF n + 1 > FailMax THEN FailMax ELSE n + 1
\* Mutant: one failure does not count as having failed.
FailCount_has_failed_Twice(n) == n > 1
\* Mutant: every count counts as having failed.
FailCount_has_failed_Any(n) == n >= 0
FailCount_has_failed(n) == n > 0
FailCount_add(a, b) == IF a + b > FailMax THEN FailMax ELSE a + b

\* ----------------------------------------------------------------- state
VARIABLES
    set,            \* Set: recall_t, recall_d, cards (the number of cards)
    cards,          \* CardList::cards, a sequence of Item
    removed,        \* CardList::removed, a sequence of FailedItem
    vals,           \* Footer::vals, FooterColor -> count
    layout,         \* Footer::width and Footer::y
    typ,            \* World::typ
    text_ok,        \* whether text_input's buffer is an accepted answer
    matches_made,   \* World::matches_made, per side
    texts_entered,  \* World::texts_entered, per side
    ret,            \* what the last key_pressed returned
    panic,          \* "none", or why the process has panicked
    wrongs,         \* history: wrong guesses graded in this presentation
    presented,      \* history: the studied item (card, side, stage, colour) when
                    \* presented, and the samples next_unstudied drew for it
    fail_calls,     \* history: calls of CardList::fail per (card, side)
    call            \* the last call a direct client of CardList made, with its result

vars == <<set, cards, removed, vals, layout, typ, text_ok,
          matches_made, texts_entered, ret, panic, wrongs, presented,
          fail_calls, call>>

\* Set::recall_settings
recall_settings(side) == IF side = "Term" THEN set.recall_t ELSE set.recall_d

\* The CardList and the Footer it reports to, as one value the operations map.
\* err is the panic an operation ends in ("none": it returns); moves counts the
\* calls of Footer::move.
List == [cards |-> cards, removed |-> removed, vals |-> vals, err |-> "none", moves |-> 0]

\* FailedItem::from(&Item)
FailedItem_from(item) ==
    [card |-> item.card, side |-> item.side,
     match_fails |-> item.match_fails, text_fails |-> item.text_fails]

FailedItem_total_fails(f) == FailCount_add(f.match_fails, f.text_fails)

\* ---------------------------------------------------------------- Footer
Footer_new(count) == [c \in FooterColors |-> IF c = Black THEN count ELSE 0]

\* Mutant: the two colours are taken the other way round.
Footer_move_Swapped(v, curr, dst) ==
    LET v1 == [v EXCEPT ![curr] = @ + 1]
        v2 == [v1 EXCEPT ![dst] = @ - 1]
    IN  [vals |-> v2, err |-> IF v1[dst] = 0 THEN "underflow" ELSE "none"]

\* Mutant: the source bucket is not decremented.
Footer_move_NoDecrement(v, curr, dst) ==
    [vals |-> [v EXCEPT ![dst] = @ + 1], err |-> "none"]

\* vals[dst] += 1; vals[curr] -= 1, on u32 counts. Decrementing a zero count
\* is the "underflow": a build with overflow checks panics there, one without
\* wraps to 2^32 - 1, which is written -1 here (the same residue modulo 2^32).
\* No run within the bounds comes near 2^32 increments.
Footer_move(v, curr, dst) ==
    LET v1 == [v EXCEPT ![dst] = @ + 1]
        v2 == [v1 EXCEPT ![curr] = @ - 1]
    IN  [vals |-> v2, err |-> IF v1[curr] = 0 THEN "underflow" ELSE "none"]

\* -------------------------------------------------------------- CardList
\* The items from_set creates for one side.
ItemsOf(n, side) ==
    LET start == StudyType_first(IF side = "Term" THEN set.recall_t ELSE set.recall_d)
    IN  IF start = NoStudyType THEN << >>
        ELSE [c \in 1..n |->
                [card |-> c, side |-> side, next_study_type |-> start,
                 footer_color |-> Black, match_fails |-> 0, text_fails |-> 0]]

CardList_from_set == ItemsOf(set.cards, "Term") \o ItemsOf(set.cards, "Definition")

\* Mutant: the removal drops the last item instead of the addressed one.
swap_remove_Truncate(s, index) == SubSeq(s, 1, Len(s) - 1)

\* Vec::swap_remove
swap_remove(s, index) ==
    LET n == Len(s)
    IN  IF index = n THEN SubSeq(s, 1, n - 1)
        ELSE [SubSeq(s, 1, n - 1) EXCEPT ![index] = s[n]]

\* Mutant: the first sample is taken whatever it is.
Sample_NoRetry(cs, last, index, counter) ==
    {[token |-> i, samples |-> 1] : i \in DOMAIN cs}

\* Mutant: the sampled range includes the length.
RECURSIVE Sample_Inclusive(_, _, _, _)
Sample_Inclusive(cs, last, index, counter) ==
    IF index = last /\ counter < MaxSamples
    THEN UNION {Sample_Inclusive(cs, last, i, counter + 1) : i \in 1..(Len(cs) + 1)}
    ELSE {[token |-> index, samples |-> counter]}

\* What the sampling loop of next_unstudied can end with after `counter`
\* samples, `index` being the latest one: the token and the samples drawn.
RECURSIVE Sample(_, _, _, _)
Sample(cs, last, index, counter) ==
    IF index = last /\ counter < MaxSamples
    THEN UNION {Sample(cs, last, i, counter + 1) : i \in DOMAIN cs}
    ELSE {[token |-> index, samples |-> counter]}

\* The results next_unstudied can return, NoToken standing for None; a `last`
\* of None is the index usize::MAX, which no sample equals.
next_unstudied(cs, last) ==
    IF cs = << >> THEN {[token |-> NoToken, samples |-> 0]}
    ELSE Sample(cs, last, last, 0)

\* Mutant: progress moves the footer count but leaves the item's own colour.
CardList_progress_KeepColor(L, index) ==
    IF L.err # "none" THEN L
    ELSE IF index \notin DOMAIN L.cards THEN [L EXCEPT !.err = "index"]
    ELSE
    LET card == L.cards[index]
        old_color == card.footer_color
        p == StudyType_progress(card.next_study_type, recall_settings(card.side))
        moved == Footer_move(L.vals, old_color, p.color)
    IN  IF p.bad THEN [L EXCEPT !.err = "bad_progression"]
        ELSE IF p.next # NoStudyType
        THEN [cards |-> [L.cards EXCEPT ![index].next_study_type = p.next],
              removed |-> L.removed,
              vals |-> moved.vals,
              err |-> moved.err,
              moves |-> L.moves + 1]
        ELSE [cards |-> swap_remove(L.cards, index),
              removed |-> IF FailCount_has_failed(card.match_fails)
                             \/ FailCount_has_failed(card.text_fails)
                          THEN Append(L.removed, FailedItem_from(card))
                          ELSE L.removed,
              vals |-> moved.vals,
              err |-> moved.err,
              moves |-> L.moves + 1]

CardList_progress(L, index) ==
    IF L.err # "none" THEN L
    ELSE IF index \notin DOMAIN L.cards THEN [L EXCEPT !.err = "index"]
    ELSE
    LET card == L.cards[index]
        old_color == card.footer_color
        p == StudyType_progress(card.next_study_type, recall_settings(card.side))
        moved == Footer_move(L.vals, old_color, p.color)
    IN  IF p.bad THEN [L EXCEPT !.err = "bad_progression"]
        ELSE IF p.next # NoStudyType
        THEN [cards |-> [L.cards EXCEPT ![index].next_study_type = p.next,
                                        ![index].footer_color = p.color],
              removed |-> L.removed,
              vals |-> moved.vals,
              err |-> moved.err,
              moves |-> L.moves + 1]
        ELSE [cards |-> swap_remove(L.cards, index),
              removed |-> IF FailCount_has_failed(card.match_fails)
                             \/ FailCount_has_failed(card.text_fails)
                          THEN Append(L.removed, FailedItem_from(card))
                          ELSE L.removed,
              vals |-> moved.vals,
              err |-> moved.err,
              moves |-> L.moves + 1]

\* Mutant: regress takes the item out of Yellow whatever its colour is.
CardList_regress_FromYellow(L, index) ==
    IF L.err # "none" THEN L
    ELSE IF index \notin DOMAIN L.cards THEN [L EXCEPT !.err = "index"]
    ELSE
    LET card == L.cards[index]
        g == StudyType_regress(card.next_study_type, recall_settings(card.side))
        moved == Footer_move(L.vals, Yellow, g.color)
    IN  IF g.some
        THEN [cards |-> [L.cards EXCEPT ![index].next_study_type = g.next,
                                        ![index].footer_color = g.color],
              removed |-> L.removed,
              vals |-> moved.vals,
              err |-> moved.err,
              moves |-> L.moves + 1]
        ELSE L

CardList_regress(L, index) ==
    IF L.err # "none" THEN L
    ELSE IF index \notin DOMAIN L.cards THEN [L EXCEPT !.err = "index"]
    ELSE
    LET card == L.cards[index]
        old_color == card.footer_color
        g == StudyType_regress(card.next_study_type, recall_settings(card.side))
        moved == Footer_move(L.vals, old_color, g.color)
    IN  IF g.some
        THEN [cards |-> [L.cards EXCEPT ![index].next_study_type = g.next,
                                        ![index].footer_color = g.color],
              removed |-> L.removed,
              vals |-> moved.vals,
              err |-> moved.err,
              moves |-> L.moves + 1]
        ELSE L

\* Mutant: the failure is always counted as a text failure.
CardList_fail_TextOnly(L, index) ==
    IF L.err # "none" THEN L
    ELSE IF index \notin DOMAIN L.cards THEN [L EXCEPT !.err = "index"]
    ELSE [L EXCEPT !.cards[index].text_fails = FailCount_inc(@)]

\* Mutant: a failure is counted in both counters.
CardList_fail_Both(L, index) ==
    IF L.err # "none" THEN L
    ELSE IF index \notin DOMAIN L.cards THEN [L EXCEPT !.err = "index"]
    ELSE [L EXCEPT !.cards[index].match_fails = FailCount_inc(@),
                   !.cards[index].text_fails = FailCount_inc(@)]

CardList_fail(L, index) ==
    IF L.err # "none" THEN L
    ELSE IF index \notin DOMAIN L.cards THEN [L EXCEPT !.err = "index"]
    ELSE IF L.cards[index].next_study_type.mode = "Matching"
    THEN [L EXCEPT !.cards[index].match_fails = FailCount_inc(@)]
    ELSE [L EXCEPT !.cards[index].text_fails = FailCount_inc(@)]

\* The texts one answer box of matching_answers_for can end with, `prev` being
\* the boxes filled before it and `tries` the draws already made for it. A
\* text is drawn from a card of the set; a text no earlier box holds is kept,
\* and so is the last draw whatever it is. The display text of card c on the
\* tested side is written c: the cards' texts are pairwise distinct.
RECURSIVE DrawAnswer(_, _)
DrawAnswer(prev, tries) ==
    LET held == {prev[j] : j \in DOMAIN prev}
        drawn == 1..set.cards
    IN  IF tries + 1 = MaxDraws THEN drawn
        ELSE (drawn \ held) \cup
             (IF drawn \cap held # {} THEN DrawAnswer(prev, tries + 1) ELSE {})

\* The orders slice::shuffle can leave four answers in.
Orders == {q \in [1..4 -> 1..4] : \A i, j \in 1..4 : q[i] = q[j] => i = j}
Shuffles(a) == {[i \in 1..4 |-> a[p[i]]] : p \in Orders}

\* CardList::matching_answers_for: the arrays of four texts it can return.
matching_answers_for(card) ==
    UNION {Shuffles(<<card.card, a2, a3, a4>>) :
            <<a2, a3, a4>> \in
                {t \in (1..set.cards) \X (1..set.cards) \X (1..set.cards) :
                    /\ t[1] \in DrawAnswer(<<card.card>>, 0)
                    /\ t[2] \in DrawAnswer(<<card.card, t[1]>>, 0)
                    /\ t[3] \in DrawAnswer(<<card.card, t[1], t[2]>>, 0)}}

\* Mutant: fails() takes the failed items out of the active list.
RECURSIVE NotFailedOf(_)
NotFailedOf(cs) ==
    IF cs = << >> THEN << >>
    ELSE (IF Head(cs).match_fails > 0 \/ Head(cs).text_fails > 0
          THEN << >> ELSE << Head(cs) >>) \o NotFailedOf(Tail(cs))

\* The entries fails() appends: the active items that have failed, in order.
RECURSIVE FailedOf(_)
FailedOf(cs) ==
    IF cs = << >> THEN << >>
    ELSE (IF FailCount_has_failed(Head(cs).match_fails)
             \/ FailCount_has_failed(Head(cs).text_fails)
          THEN << FailedItem_from(Head(cs)) >> ELSE << >>) \o FailedOf(Tail(cs))

CardList_fails_Drain(L) ==
    [L EXCEPT !.removed = @ \o FailedOf(L.cards), !.cards = NotFailedOf(@)]

CardList_fails(L) == [L EXCEPT !.removed = @ \o FailedOf(L.cards)]

remaining_unstudied(cs) == Len(cs)

\* The number of fail() calls the list records.
RECURSIVE SumFails(_)
SumFails(s) ==
    IF s = << >> THEN 0
    ELSE Head(s).match_fails + Head(s).text_fails + SumFails(Tail(s))

TotalFails == SumFails(cards) + SumFails(removed)

\* ----------------------------------------------------------------- World
\* WorldType, and None for the finished session. Fields a variant does not
\* have hold a fixed default.
TypNone == [kind |-> "None", studying |-> NoToken, failed |-> FALSE, hidden |-> FALSE]
TypMatching(tok, failed) ==
    [kind |-> "Matching", studying |-> tok, failed |-> failed, hidden |-> FALSE]
TypText(tok) == [kind |-> "Text", studying |-> tok, failed |-> FALSE, hidden |-> FALSE]
TypTextFailed(tok, hidden) ==
    [kind |-> "TextFailed", studying |-> tok, failed |-> FALSE, hidden |-> hidden]
TypWaiting ==
    [kind |-> "WaitingForKeypress", studying |-> NoToken, failed |-> FALSE, hidden |-> FALSE]

\* Mutant: the character 'a' is taken for a choice as well.
ChoiceKeys_WithA == {"Char1", "Char2", "Char3", "Char4", "CharA"}

\* KeyCode: the four choice keys, another character, and the keys the text
\* input and the override read.
ChoiceKeys == {"Char1", "Char2", "Char3", "Char4"}
KeyCodes == ChoiceKeys \cup {"CharA", "Enter", "BackTab", "Left"}

\* TextInput::read_input on a key that is not Enter: whether the buffer is an
\* accepted answer afterwards. A character edits the buffer, which may make it
\* right or wrong; a key that is no edit leaves it alone.
EditOutcomes(code, ok) ==
    IF code \in ChoiceKeys \cup {"CharA"} THEN BOOLEAN ELSE {ok}

\* Terminal sizes a resize event can carry.
Sizes == {<<80, 24>>, <<24, 8>>}
LayoutOf(size) == [width |-> size[1], y |-> size[2] - 1]

\* FlashcardText::contains on the text of the answer box a choice key picks.
\* The four boxes hold the studied card's own text and the texts of cards drawn
\* at random from the set, shuffled; which box holds what is not kept as state:
\* the key event says whether the picked box holds an accepted answer (hit). A
\* box can hold a text that is not accepted only when the set has another card.
MatchingHits == IF set.cards >= 2 THEN BOOLEAN ELSE {TRUE}

\* The stage and colour of an item, as `presented` keeps them.
StageOf(item) == [stage |-> item.next_study_type, color |-> item.footer_color]
\* What `presented` keeps of a presentation.
PresentationOf(item, samples) ==
    [stage |-> item.next_study_type, color |-> item.footer_color,
     card |-> item.card, side |-> item.side, samples |-> samples]
NotPresented ==
    [stage |-> NoStudyType, color |-> Black, card |-> 0, side |-> "Term", samples |-> 0]

\* Mutant: study_next asks for the text whatever the item's stage is.
study_next_TextOnly(cs, ok) ==
    {LET tok == item.token IN
     [typ |-> IF tok = NoToken THEN TypNone ELSE TypText(tok),
      text_ok |-> IF tok = NoToken THEN ok ELSE FALSE,
      presented |-> IF tok = NoToken THEN NotPresented
                    ELSE PresentationOf(cs[tok], item.samples),
      found |-> tok # NoToken] : item \in next_unstudied(cs, NoToken)}

\* What study_next can leave in typ and the text buffer, given the list `cs`
\* and whether the buffer holds an accepted answer; found is its return value.
\* Presenting an item clears the text buffer (the empty buffer is taken not to
\* be an accepted answer).
study_next(cs, ok) ==
    {LET tok == item.token IN
     [typ |-> IF tok = NoToken THEN TypNone
              ELSE IF cs[tok].next_study_type.mode = "Matching"
              THEN TypMatching(tok, FALSE) ELSE TypText(tok),
      text_ok |-> IF tok = NoToken THEN ok ELSE FALSE,
      presented |-> IF tok = NoToken THEN NotPresented
                    ELSE PresentationOf(cs[tok], item.samples),
      found |-> tok # NoToken] : item \in next_unstudied(cs, NoToken)}

\* The list and footer an operation leaves, and whether it panicked. An
\* arithmetic overflow panics in a build with overflow checks and wraps in one
\* without.
Commit(L) ==
    /\ cards' = L.cards
    /\ removed' = L.removed
    /\ vals' = L.vals
    /\ panic' \in IF L.err = "underflow" THEN {L.err, "none"} ELSE {L.err}

\* The items from_set can create, by card and side.
ItemKeys == (1..set.cards) \X Sides
\* fail_calls after one more call of fail on `item`.
Called(calls, item) == [calls EXCEPT ![<<item.card, item.side>>] = @ + 1]
\* No call made yet by a direct client of the list.
NoCall == [op |-> "none"]

\* Mutant: a graded answer is not tallied.
Tally_Forgotten(tally, side) == tally

\* tally[side] += 1
Tally(tally, side) == [tally EXCEPT ![side] = @ + 1]

\* Mutant: key_pressed returns Continue whatever study_next found.
Advance_AlwaysContinue(cs, ok) ==
    \E n \in study_next(cs, ok) :
        /\ typ' = n.typ
        /\ text_ok' = n.text_ok
        /\ presented' = n.presented
        /\ wrongs' = 0
        /\ ret' = "Continue"

\* The state study_next leaves behind, and key_pressed's return value for it.
Advance(cs, ok) ==
    \E n \in study_next(cs, ok) :
        /\ typ' = n.typ
        /\ text_ok' = n.text_ok
        /\ presented' = n.presented
        /\ wrongs' = 0
        /\ ret' = IF n.found THEN "Continue" ELSE "Break"

\* World::new
Init ==
    /\ set \in [recall_t : RecallSettingsSet, recall_d : RecallSettingsSet,
                cards : 0..MaxCards]
    /\ cards = CardList_from_set
    /\ Len(cards) <= MaxItems
    /\ removed = << >>
    /\ vals = Footer_new(remaining_unstudied(cards))
    /\ layout = LayoutOf(<<80, 24>>)
    /\ matches_made = [s \in Sides |-> 0]
    /\ texts_entered = [s \in Sides |-> 0]
    /\ ret = "None"
    /\ panic = "none"
    /\ wrongs = 0
    /\ fail_calls = [k \in ItemKeys |-> 0]
    /\ call = NoCall
    /\ \E n \in study_next(cards, FALSE) :
        /\ typ = n.typ
        /\ text_ok = n.text_ok
        /\ presented = n.presented

\* A panic (an index out of range) before the handler has changed anything.
PanicWith(why) ==
    /\ panic' = why
    /\ UNCHANGED <<set, fail_calls, call, cards, removed, vals, layout, typ, text_ok,
                   matches_made, texts_entered, ret, wrongs, presented>>

\* A key the handler ignores: it returns Continue.
Ignored ==
    /\ ret' = "Continue"
    /\ UNCHANGED <<set, fail_calls, call, cards, removed, vals, layout, typ, text_ok,
                   matches_made, texts_entered, panic, wrongs, presented>>

\* Mutant: the correct pick progresses the item even after a wrong pick.
KeyMatching_AlwaysProgress ==
    /\ panic = "none"
    /\ typ.kind = "Matching"
    /\ \E code \in KeyCodes, hit \in MatchingHits :
        LET studying == typ.studying IN
        IF code \notin ChoiceKeys THEN Ignored
        ELSE IF studying \notin DOMAIN cards THEN PanicWith("index")
        ELSE
        LET card == cards[studying] IN
        IF hit
        THEN /\ typ' = TypWaiting
             /\ IF ~typ.failed
                THEN /\ matches_made' = Tally(matches_made, card.side)
                     /\ Commit(CardList_progress(List, studying))
                ELSE /\ Commit(CardList_progress(List, studying))
                     /\ UNCHANGED matches_made
             /\ ret' = "Continue"
             /\ UNCHANGED <<set, fail_calls, call, layout, text_ok, texts_entered, wrongs, presented>>
        ELSE IF ~typ.failed
        THEN /\ TotalFails < MaxWrong
             /\ typ' = [typ EXCEPT !.failed = TRUE]
             /\ matches_made' = Tally(matches_made, card.side)
             /\ Commit(CardList_regress(CardList_fail(List, studying), studying))
             /\ fail_calls' = Called(fail_calls, card)
             /\ wrongs' = wrongs + 1
             /\ ret' = "Continue"
             /\ UNCHANGED <<set, call, layout, text_ok, texts_entered, presented>>
        ELSE /\ wrongs < MaxGuesses
             /\ wrongs' = wrongs + 1
             /\ ret' = "Continue"
             /\ UNCHANGED <<set, fail_calls, call, cards, removed, vals, layout, typ, text_ok,
                            matches_made, texts_entered, panic, presented>>

\* key_pressed in Matching
KeyMatching ==
    /\ panic = "none"
    /\ typ.kind = "Matching"
    /\ \E code \in KeyCodes, hit \in MatchingHits :
        LET studying == typ.studying IN
        IF code \notin ChoiceKeys THEN Ignored
        ELSE IF studying \notin DOMAIN cards THEN PanicWith("index")
        ELSE
        LET card == cards[studying] IN
        IF hit
        THEN /\ typ' = TypWaiting
             /\ IF ~typ.failed
                THEN /\ matches_made' = Tally(matches_made, card.side)
                     /\ Commit(CardList_progress(List, studying))
                ELSE UNCHANGED <<matches_made, cards, removed, vals, panic>>
             /\ ret' = "Continue"
             /\ UNCHANGED <<set, fail_calls, call, layout, text_ok, texts_entered, wrongs, presented>>
        ELSE IF ~typ.failed
        THEN /\ TotalFails < MaxWrong
             /\ typ' = [typ EXCEPT !.failed = TRUE]
             /\ matches_made' = Tally(matches_made, card.side)
             /\ Commit(CardList_regress(CardList_fail(List, studying), studying))
             /\ fail_calls' = Called(fail_calls, card)
             /\ wrongs' = wrongs + 1
             /\ ret' = "Continue"
             /\ UNCHANGED <<set, call, layout, text_ok, texts_entered, presented>>
        ELSE /\ wrongs < MaxGuesses
             /\ wrongs' = wrongs + 1
             /\ ret' = "Continue"
             /\ UNCHANGED <<set, fail_calls, call, cards, removed, vals, layout, typ, text_ok,
                            matches_made, texts_entered, panic, presented>>

\* Mutant: a correct text answer progresses the item but leaves World in Text,
\* still holding the token.
KeyText_KeepToken ==
    /\ panic = "none"
    /\ typ.kind = "Text"
    /\ \E code \in KeyCodes :
        LET studying == typ.studying IN
        IF code # "Enter"
        THEN /\ text_ok' \in EditOutcomes(code, text_ok)
             /\ ret' = "Continue"
             /\ UNCHANGED <<set, fail_calls, call, cards, removed, vals, layout, typ,
                            matches_made, texts_entered, panic, wrongs, presented>>
        ELSE IF studying \notin DOMAIN cards THEN PanicWith("index")
        ELSE
        LET card == cards[studying] IN
        IF text_ok
        THEN /\ texts_entered' = Tally(texts_entered, card.side)
             /\ Commit(CardList_progress(List, studying))
             /\ ret' = "Continue"
             /\ UNCHANGED <<set, fail_calls, call, layout, typ, text_ok, matches_made,
                            wrongs, presented>>
        ELSE /\ TotalFails < MaxWrong
             /\ texts_entered' = Tally(texts_entered, card.side)
             /\ Commit(CardList_regress(CardList_fail(List, studying), studying))
             /\ fail_calls' = Called(fail_calls, card)
             /\ typ' = TypTextFailed(studying, TRUE)
             /\ wrongs' = wrongs + 1
             /\ ret' = "Continue"
             /\ UNCHANGED <<set, call, layout, text_ok, matches_made, presented>>

\* Mutant: a wrong text answer regresses the item before the failure is
\* counted.
KeyText_RegressFirst ==
    /\ panic = "none"
    /\ typ.kind = "Text"
    /\ \E code \in KeyCodes :
        LET studying == typ.studying IN
        IF code # "Enter"
        THEN /\ text_ok' \in EditOutcomes(code, text_ok)
             /\ ret' = "Continue"
             /\ UNCHANGED <<set, fail_calls, call, cards, removed, vals, layout, typ,
                            matches_made, texts_entered, panic, wrongs, presented>>
        ELSE IF studying \notin DOMAIN cards THEN PanicWith("index")
        ELSE
        LET card == cards[studying] IN
        IF text_ok
        THEN /\ texts_entered' = Tally(texts_entered, card.side)
             /\ Commit(CardList_progress(List, studying))
             /\ typ' = TypWaiting
             /\ ret' = "Continue"
             /\ UNCHANGED <<set, fail_calls, call, layout, text_ok, matches_made, wrongs, presented>>
        ELSE /\ TotalFails < MaxWrong
             /\ texts_entered' = Tally(texts_entered, card.side)
             /\ Commit(CardList_fail(CardList_regress(List, studying), studying))
             /\ typ' = TypTextFailed(studying, TRUE)
             /\ fail_calls' = Called(fail_calls, card)
             /\ wrongs' = wrongs + 1
             /\ ret' = "Continue"
             /\ UNCHANGED <<set, call, layout, text_ok, matches_made, presented>>

\* key_pressed in Text
KeyText ==
    /\ panic = "none"
    /\ typ.kind = "Text"
    /\ \E code \in KeyCodes :
        LET studying == typ.studying IN
        IF code # "Enter"
        THEN /\ text_ok' \in EditOutcomes(code, text_ok)
             /\ ret' = "Continue"
             /\ UNCHANGED <<set, fail_calls, call, cards, removed, vals, layout, typ,
                            matches_made, texts_entered, panic, wrongs, presented>>
        ELSE IF studying \notin DOMAIN cards THEN PanicWith("index")
        ELSE
        LET card == cards[studying] IN
        IF text_ok
        THEN /\ texts_entered' = Tally(texts_entered, card.side)
             /\ Commit(CardList_progress(List, studying))
             /\ typ' = TypWaiting
             /\ ret' = "Continue"
             /\ UNCHANGED <<set, fail_calls, call, layout, text_ok, matches_made, wrongs, presented>>
        ELSE /\ TotalFails < MaxWrong
             /\ texts_entered' = Tally(texts_entered, card.side)
             /\ Commit(CardList_regress(CardList_fail(List, studying), studying))
             /\ typ' = TypTextFailed(studying, TRUE)
             /\ fail_calls' = Called(fail_calls, card)
             /\ wrongs' = wrongs + 1
             /\ ret' = "Continue"
             /\ UNCHANGED <<set, call, layout, text_ok, matches_made, presented>>

\* Mutant: a key that leaves the text wrong regresses the item again.
KeyTextFailed_RegressAgain ==
    /\ panic = "none"
    /\ typ.kind = "TextFailed"
    /\ \E code \in KeyCodes :
        LET studying == typ.studying IN
        IF code = "BackTab"
        THEN LET L == CardList_progress(CardList_progress(List, studying), studying) IN
             /\ Commit(L)
             /\ IF L.err = "none"
                THEN Advance(L.cards, text_ok)
                ELSE UNCHANGED <<typ, text_ok, ret, wrongs, presented>>
             /\ UNCHANGED <<set, fail_calls, call, layout, matches_made, texts_entered>>
        ELSE IF studying \notin DOMAIN cards THEN PanicWith("index")
        ELSE \E ok \in EditOutcomes(code, text_ok) :
             /\ IF ok
                THEN Advance(cards, ok) /\ UNCHANGED <<cards, removed, vals, panic>>
                ELSE /\ typ' = [typ EXCEPT !.hidden = FALSE]
                     /\ text_ok' = ok
                     /\ ret' = "Continue"
                     /\ Commit(CardList_regress(List, studying))
                     /\ UNCHANGED <<wrongs, presented>>
             /\ UNCHANGED <<set, fail_calls, call, layout, matches_made, texts_entered>>

\* Mutant: a text corrected after the failure is tallied as another answer.
KeyTextFailed_TallyAgain ==
    /\ panic = "none"
    /\ typ.kind = "TextFailed"
    /\ \E code \in KeyCodes :
        LET studying == typ.studying IN
        IF code = "BackTab"
        THEN LET L == CardList_progress(CardList_progress(List, studying), studying) IN
             /\ Commit(L)
             /\ IF L.err = "none"
                THEN Advance(L.cards, text_ok)
                ELSE UNCHANGED <<typ, text_ok, ret, wrongs, presented>>
             /\ UNCHANGED <<set, fail_calls, call, layout, matches_made, texts_entered>>
        ELSE IF studying \notin DOMAIN cards THEN PanicWith("index")
        ELSE \E ok \in EditOutcomes(code, text_ok) :
             /\ IF ok
                THEN /\ Advance(cards, ok)
                     /\ texts_entered' = Tally(texts_entered, cards[studying].side)
                ELSE /\ typ' = [typ EXCEPT !.hidden = FALSE]
                     /\ text_ok' = ok
                     /\ ret' = "Continue"
                     /\ UNCHANGED <<wrongs, presented, texts_entered>>
             /\ UNCHANGED <<set, fail_calls, call, cards, removed, vals, layout, matches_made,
                            panic>>

\* key_pressed in TextFailed
KeyTextFailed ==
    /\ panic = "none"
    /\ typ.kind = "TextFailed"
    /\ \E code \in KeyCodes :
        LET studying == typ.studying IN
        IF code = "BackTab"
        THEN LET L == CardList_progress(CardList_progress(List, studying), studying) IN
             /\ Commit(L)
             /\ IF L.err = "none"
                THEN Advance(L.cards, text_ok)
                ELSE UNCHANGED <<typ, text_ok, ret, wrongs, presented>>
             /\ UNCHANGED <<set, fail_calls, call, layout, matches_made, texts_entered>>
        ELSE IF studying \notin DOMAIN cards THEN PanicWith("index")
        ELSE \E ok \in EditOutcomes(code, text_ok) :
             /\ IF ok
                THEN Advance(cards, ok)
                ELSE /\ typ' = [typ EXCEPT !.hidden = FALSE]
                     /\ text_ok' = ok
                     /\ ret' = "Continue"
                     /\ UNCHANGED <<wrongs, presented>>
             /\ UNCHANGED <<set, fail_calls, call, cards, removed, vals, layout, matches_made,
                            texts_entered, panic>>

\* key_pressed in WaitingForKeypress
KeyWaiting ==
    /\ panic = "none"
    /\ typ.kind = "WaitingForKeypress"
    /\ \E code \in KeyCodes :
        /\ Advance(cards, text_ok)
        /\ UNCHANGED <<set, fail_calls, call, cards, removed, vals, layout, matches_made,
                       texts_entered, panic>>

\* Mutant: a key pressed once the session has finished returns Continue.
KeyNone_Continue ==
    /\ panic = "none"
    /\ typ.kind = "None"
    /\ \E code \in KeyCodes :
        /\ ret' = "Continue"
        /\ UNCHANGED <<set, fail_calls, call, cards, removed, vals, layout, typ, text_ok,
                       matches_made, texts_entered, panic, wrongs, presented>>

\* key_pressed once the session has finished
KeyNone ==
    /\ panic = "none"
    /\ typ.kind = "None"
    /\ \E code \in KeyCodes :
        /\ ret' = "Break"
        /\ UNCHANGED <<set, fail_calls, call, cards, removed, vals, layout, typ, text_ok,
                       matches_made, texts_entered, panic, wrongs, presented>>

\* Mutant: a resize builds the footer anew from the number of active items.
Resize_NewFooter ==
    /\ panic = "none"
    /\ \E size \in Sizes :
        /\ layout' = LayoutOf(size)
        /\ vals' = Footer_new(remaining_unstudied(cards))
        /\ UNCHANGED <<set, fail_calls, call, cards, removed, typ, text_ok,
                       matches_made, texts_entered, ret, panic, wrongs, presented>>

\* World::resize
Resize ==
    /\ panic = "none"
    /\ \E size \in Sizes :
        /\ layout' = LayoutOf(size)
        /\ UNCHANGED <<set, fail_calls, call, cards, removed, vals, typ, text_ok,
                       matches_made, texts_entered, ret, panic, wrongs, presented>>

Next == KeyMatching \/ KeyText \/ KeyTextFailed \/ KeyWaiting \/ KeyNone \/ Resize

Spec == Init /\ [][Next]_vars

\* ------------------------------------------------------------ print_stats
\* StatsLine::new(..).total of the "Matches made:" line: term + definition.
MatchesMadeTotal == matches_made["Term"] + matches_made["Definition"]

\* StatsSection::is_used of the matches section: made.total > 0.
MatchesUsed == MatchesMadeTotal > 0

\* The lines print_stats prints under "Fails:" when it is called now: one for
\* each entry of fails() whose total_fails() is above zero, with that count and
\* the card's text (written as the card and the side asked), and none at all
\* unless the matches section is used. The order of the lines is left out.
print_stats_fails ==
    LET fails == CardList_fails(List).removed
    IN  IF MatchesUsed
        THEN {[count |-> FailedItem_total_fails(fails[i]),
               card |-> fails[i].card, side |-> fails[i].side] :
                i \in {j \in DOMAIN fails : FailedItem_total_fails(fails[j]) > 0}}
        ELSE {}

\* ------------------------------------------------ World, key events kept
\* The session of Spec without resize events, with the code of the last key
\* event handled in Matching kept in `call`.
KeyMatchingEvent ==
    /\ panic = "none"
    /\ typ.kind = "Matching"
    /\ \E code \in KeyCodes, hit \in MatchingHits :
        LET studying == typ.studying IN
        /\ call' = [op |-> "key", code |-> code]
        /\ IF code \notin ChoiceKeys
           THEN /\ ret' = "Continue"
                /\ UNCHANGED <<set, fail_calls, cards, removed, vals, layout, typ, text_ok,
                               matches_made, texts_entered, panic, wrongs, presented>>
           ELSE IF studying \notin DOMAIN cards
           THEN /\ panic' = "index"
                /\ UNCHANGED <<set, fail_calls, cards, removed, vals, layout, typ, text_ok,
                               matches_made, texts_entered, ret, wrongs, presented>>
           ELSE
           LET card == cards[studying] IN
           IF hit
           THEN /\ typ' = TypWaiting
                /\ IF ~typ.failed
                   THEN /\ matches_made' = Tally(matches_made, card.side)
                        /\ Commit(CardList_progress(List, studying))
                   ELSE UNCHANGED <<matches_made, cards, removed, vals, panic>>
                /\ ret' = "Continue"
                /\ UNCHANGED <<set, fail_calls, layout, text_ok, texts_entered, wrongs, presented>>
           ELSE IF ~typ.failed
           THEN /\ TotalFails < MaxWrong
                /\ typ' = [typ EXCEPT !.failed = TRUE]
                /\ matches_made' = Tally(matches_made, card.side)
                /\ Commit(CardList_regress(CardList_fail(List, studying), studying))
                /\ fail_calls' = Called(fail_calls, card)
                /\ wrongs' = wrongs + 1
                /\ ret' = "Continue"
                /\ UNCHANGED <<set, layout, text_ok, texts_entered, presented>>
           ELSE /\ wrongs < MaxGuesses
                /\ wrongs' = wrongs + 1
                /\ ret' = "Continue"
                /\ UNCHANGED <<set, fail_calls, cards, removed, vals, layout, typ, text_ok,
                               matches_made, texts_entered, panic, presented>>

NextKeys == KeyMatchingEvent \/ KeyText \/ KeyTextFailed \/ KeyWaiting \/ KeyNone

SpecKeys == Init /\ [][NextKeys]_vars

\* ------------------------------------------------- CardList, used directly
\* A client that owns a CardList and a Footer and calls their methods in any
\* order, with tokens of active items. The fields of World stay as they are.
WorldIdle == UNCHANGED <<set, typ, text_ok, matches_made, texts_entered, ret,
                         wrongs, presented>>

\* CardList::from_set and Footer::new on a set of at most `most` cards
FreshList(most) ==
    /\ set \in [recall_t : RecallSettingsSet, recall_d : RecallSettingsSet,
                cards : 0..most]
    /\ cards = CardList_from_set
    /\ removed = << >>
    /\ vals = Footer_new(remaining_unstudied(cards))
    /\ layout = LayoutOf(<<80, 24>>)
    /\ typ = TypNone
    /\ text_ok = FALSE
    /\ matches_made = [s \in Sides |-> 0]
    /\ texts_entered = [s \in Sides |-> 0]
    /\ ret = "None"
    /\ panic = "none"
    /\ wrongs = 0
    /\ presented = NotPresented
    /\ fail_calls = [k \in ItemKeys |-> 0]
    /\ call = NoCall

InitList == FreshList(MaxCards) /\ Len(cards) <= MaxItems

\* progress(token, footer)
ListProgress ==
    /\ panic = "none"
    /\ \E index \in DOMAIN cards :
        /\ Commit(CardList_progress(List, index))
        /\ call' = [op |-> "progress", index |-> index]
    /\ UNCHANGED <<layout, fail_calls>>
    /\ WorldIdle

\* regress(token, footer)
ListRegress ==
    /\ panic = "none"
    /\ \E index \in DOMAIN cards :
        /\ Commit(CardList_regress(List, index))
        /\ call' = [op |-> "regress", index |-> index]
    /\ UNCHANGED <<layout, fail_calls>>
    /\ WorldIdle

\* fail(token)
ListFail ==
    /\ panic = "none"
    /\ TotalFails < MaxWrong
    /\ \E index \in DOMAIN cards :
        /\ Commit(CardList_fail(List, index))
        /\ fail_calls' = Called(fail_calls, cards[index])
        /\ call' = [op |-> "fail", index |-> index]
    /\ UNCHANGED layout
    /\ WorldIdle

\* fails()
ListFails ==
    /\ panic = "none"
    /\ Len(removed) < MaxItems
    /\ Commit(CardList_fails(List))
    /\ call' = [op |-> "fails"]
    /\ UNCHANGED <<layout, fail_calls>>
    /\ WorldIdle

\* Footer::resize
ListResize ==
    /\ panic = "none"
    /\ \E size \in Sizes :
        /\ layout' = LayoutOf(size)
        /\ call' = [op |-> "resize"]
    /\ UNCHANGED <<cards, removed, vals, panic, fail_calls>>
    /\ WorldIdle

\* next_unstudied(last) on a list fresh from from_set, for last = None, a token
\* of an active item, or an index past the end. The method takes &self: its
\* result is all there is to see, and `call` keeps it.
QueryNextUnstudied ==
    /\ call = NoCall
    /\ \E last \in 0..(Len(cards) + 1) :
        \E r \in next_unstudied(cards, last) :
            call' = [op |-> "next_unstudied", last |-> last,
                     token |-> r.token, samples |-> r.samples]
    /\ UNCHANGED <<cards, removed, vals, layout, panic, fail_calls>>
    /\ WorldIdle

\* matching_answers_for(item) on a list fresh from from_set
QueryMatchingAnswers ==
    /\ call = NoCall
    /\ \E index \in DOMAIN cards :
        \E answers \in matching_answers_for(cards[index]) :
            call' = [op |-> "matching_answers_for", index |-> index,
                     answers |-> answers]
    /\ UNCHANGED <<cards, removed, vals, layout, panic, fail_calls>>
    /\ WorldIdle

NextList ==
    \/ ListProgress \/ ListRegress \/ ListFail \/ ListFails \/ ListResize
    \/ QueryNextUnstudied \/ QueryMatchingAnswers

SpecList == InitList /\ [][NextList]_vars

\* ------------------------------------------------- CardList, queried once
\* The two methods that take &self, each applied once to the list of a larger
\* set.
InitQuery == FreshList(MaxDeck)

NextQuery == QueryNextUnstudied \/ QueryMatchingAnswers

SpecQuery == InitQuery /\ [][NextQuery]_vars

\* ------------------------------------------------ FailCount, used directly
\* A client of the fail_count module holding two counters, self and rhs, that
\* start at FailCount::ZERO; `call` keeps the last operation, the value self
\* had before it (was), and the two counters (a: self, b: rhs). The fields of
\* World and the list stay as they are.
InitCount ==
    /\ set = [recall_t |-> [matching |-> FALSE, text |-> FALSE],
              recall_d |-> [matching |-> FALSE, text |-> FALSE], cards |-> 0]
    /\ cards = CardList_from_set
    /\ removed = << >>
    /\ vals = Footer_new(remaining_unstudied(cards))
    /\ layout = LayoutOf(<<80, 24>>)
    /\ typ = TypNone
    /\ text_ok = FALSE
    /\ matches_made = [s \in Sides |-> 0]
    /\ texts_entered = [s \in Sides |-> 0]
    /\ ret = "None"
    /\ panic = "none"
    /\ wrongs = 0
    /\ presented = NotPresented
    /\ fail_calls = [k \in ItemKeys |-> 0]
    /\ call = [op |-> "ZERO", was |-> 0, a |-> 0, b |-> 0]

CountIdle == UNCHANGED <<cards, removed, vals, layout, panic, fail_calls>> /\ WorldIdle

\* self.inc()
CountInc ==
    /\ call' = [op |-> "inc", was |-> call.a, a |-> FailCount_inc(call.a), b |-> call.b]
    /\ CountIdle

\* rhs.inc()
CountIncRhs ==
    /\ call' = [op |-> "inc_rhs", was |-> call.a, a |-> call.a, b |-> FailCount_inc(call.b)]
    /\ CountIdle

\* self = self + rhs
CountAdd ==
    /\ call' = [op |-> "add", was |-> call.a, a |-> FailCount_add(call.a, call.b),
                b |-> call.b]
    /\ CountIdle

NextCount == CountInc \/ CountIncRhs \/ CountAdd

SpecCount == InitCount /\ [][NextCount]_vars

\* ---------------------------------------------------------------- claims
\* The tables of the specification, written out independently of the code.
BothModes(rs) == rs.matching /\ rs.text

\* The entry stage of a side.
EntryStage(rs) == IF rs.matching THEN Matching(FALSE) ELSE Text(FALSE)

\* The stages an item walks through, with their bucket colours.
Walk(rs) ==
    IF BothModes(rs)
    THEN << [stage |-> Matching(FALSE), color |-> Black],
            [stage |-> Text(FALSE), color |-> Red],
            [stage |-> Text(TRUE), color |-> Yellow] >>
    ELSE IF rs.matching
    THEN << [stage |-> Matching(FALSE), color |-> Black],
            [stage |-> Matching(TRUE), color |-> Yellow] >>
    ELSE << [stage |-> Text(FALSE), color |-> Black],
            [stage |-> Text(TRUE), color |-> Yellow] >>

\* The colour the progression table gives a stage.
TableColor(st, rs) ==
    IF st = EntryStage(rs) THEN Black
    ELSE IF st = Text(FALSE) THEN Red
    ELSE Yellow

\* The index of the item of card c and side sd in cs, NoToken when it is gone.
KeyIndex(cs, c, sd) ==
    IF \E i \in DOMAIN cs : cs[i].card = c /\ cs[i].side = sd
    THEN CHOOSE i \in DOMAIN cs : cs[i].card = c /\ cs[i].side = sd
    ELSE NoToken

\* The item World is studying, and its side's settings.
Studied == cards[typ.studying]
StudiedSettings == recall_settings(Studied.side)
Studying == typ.kind \in {"Matching", "Text", "TextFailed"} /\ typ.studying \in DOMAIN cards

InitialCount == Len(CardList_from_set)

\* C1: the four footer counts always add up to the number of items from_set
\* created.
C1_BucketSum ==
    vals[Black] + vals[Red] + vals[Yellow] + vals[Green] = InitialCount

\* An item has been mastered, another sits in Red, and a wrong answer was given.
C1_Witness == vals[Green] >= 1 /\ vals[Red] >= 1 /\ TotalFails >= 1

\* C2: every active item's cached colour is the one the progression table
\* gives its stage and its side's settings.
C2_ColorDerived ==
    \A i \in DOMAIN cards :
        cards[i].footer_color =
            TableColor(cards[i].next_study_type, recall_settings(cards[i].side))

\* A wrong text answer has just regressed a both-modes item from Text(false) to
\* Matching(false).
C2_Witness ==
    /\ Studying /\ typ.kind = "TextFailed"
    /\ BothModes(StudiedSettings)
    /\ presented.stage = Text(FALSE)
    /\ Studied.next_study_type = Matching(FALSE)
    /\ Studied.footer_color = Black

\* C3: no active item is in a stage its side's settings disable, and the
\* "Bad progression" arm is never run.
C3_StageEnabled ==
    /\ panic # "bad_progression"
    /\ \A i \in DOMAIN cards :
        LET st == cards[i].next_study_type
            rs == recall_settings(cards[i].side)
        IN  /\ st.mode = "Text" => rs.text
            /\ st.mode = "Matching" => rs.matching
            /\ ~(st = Matching(TRUE) /\ BothModes(rs))

\* A both-modes item has been mastered and another has moved on to Text(true).
C3_Witness ==
    /\ vals[Green] >= 1
    /\ \E i \in DOMAIN cards :
        /\ BothModes(recall_settings(cards[i].side))
        /\ cards[i].next_study_type = Text(TRUE)

\* The list after k calls of CardList::progress on the item of card c, side sd.
RECURSIVE ProgressTimes(_, _, _, _)
ProgressTimes(L, c, sd, k) ==
    IF k = 0 THEN L
    ELSE LET P == ProgressTimes(L, c, sd, k - 1)
         IN  CardList_progress(P, KeyIndex(P.cards, c, sd))

\* C4: from the entry stage, repeated progress walks the item through every
\* stage of its sequence in order and removes it with the call after the last
\* stage: the second call with one mode enabled, the third with both.
C4_WalkToMastery ==
    \A i \in DOMAIN cards :
        LET it == cards[i]
            w == Walk(recall_settings(it.side))
        IN  StageOf(it) = w[1] =>
            /\ Len(w) = IF BothModes(recall_settings(it.side)) THEN 3 ELSE 2
            /\ \A k \in 0..Len(w) :
                LET P == ProgressTimes(List, it.card, it.side, k)
                    j == KeyIndex(P.cards, it.card, it.side)
                IN  IF k < Len(w)
                    THEN /\ P.err = "none"
                         /\ j # NoToken
                         /\ StageOf(P.cards[j]) = w[k + 1]
                         /\ Len(P.cards) = Len(cards)
                    ELSE /\ P.err = "none"
                         /\ j = NoToken
                         /\ Len(P.cards) = Len(cards) - 1
                         /\ P.vals[Green] = vals[Green] + 1

\* A both-modes item was walked to mastery while another is still at its
\* entry stage.
C4_Witness ==
    /\ vals[Green] >= 1
    /\ \E i \in DOMAIN cards :
        /\ BothModes(recall_settings(cards[i].side))
        /\ StageOf(cards[i]) = Walk(recall_settings(cards[i].side))[1]

\* Where the specification's regression rules send a stage, for the stages
\* they move.
RegressTable(st, rs) ==
    CASE BothModes(rs) /\ st = Text(FALSE) -> [stage |-> Matching(FALSE), color |-> Black]
      [] BothModes(rs) /\ st = Text(TRUE) -> [stage |-> Text(FALSE), color |-> Red]
      [] rs.matching /\ ~rs.text /\ st = Matching(TRUE) ->
            [stage |-> Matching(FALSE), color |-> Black]
      [] ~rs.matching /\ rs.text /\ st = Text(TRUE) ->
            [stage |-> Text(FALSE), color |-> Black]
      [] OTHER -> [stage |-> st, color |-> TableColor(st, rs)]

\* C5: regress sends each stage where the regression rules say, and leaves
\* Matching(false) with both modes where it is.
C5_RegressTable ==
    \A i \in DOMAIN cards :
        LET R == CardList_regress(List, i)
        IN  /\ R.err = "none"
            /\ Len(R.cards) = Len(cards)
            /\ StageOf(R.cards[i]) =
                 RegressTable(cards[i].next_study_type, recall_settings(cards[i].side))

\* A wrong text answer has just regressed a both-modes item from Text(true) to
\* Text(false), into Red.
C5_Witness ==
    /\ Studying /\ typ.kind = "TextFailed"
    /\ BothModes(StudiedSettings)
    /\ presented.stage = Text(TRUE)
    /\ StageOf(Studied) = [stage |-> Text(FALSE), color |-> Red]

\* C6: regress on an item at its entry stage changes nothing at all: no item,
\* no ledger entry, no footer count, and Footer::move is not called.
C6_EntryRegressNoOp ==
    \A i \in DOMAIN cards :
        cards[i].next_study_type = EntryStage(recall_settings(cards[i].side)) =>
            CardList_regress(List, i) = List

\* A wrong pick has just been graded on an item presented at Matching(false):
\* the failure is counted and the item is where it was.
C6_Witness ==
    /\ Studying /\ typ.kind = "Matching" /\ typ.failed
    /\ presented.stage = Matching(FALSE)
    /\ Studied.next_study_type = Matching(FALSE)
    /\ Studied.match_fails >= 1

\* A step inside a presentation that has already registered a wrong guess.
LaterGuess ==
    \/ typ.kind = "Matching" /\ typ.failed /\ typ'.kind = "Matching"
    \/ typ.kind = "TextFailed" /\ typ'.kind = "TextFailed"

\* C7: once a presentation has registered a wrong guess, whatever happens
\* before the next study_next leaves the studied item's stage and colour and
\* the footer counts as the first wrong guess left them.
C7_RegressOncePerPresentation ==
    [][LaterGuess =>
        /\ typ'.studying = typ.studying
        /\ typ.studying \in DOMAIN cards /\ typ.studying \in DOMAIN cards'
        /\ StageOf(cards'[typ.studying]) = StageOf(cards[typ.studying])
        /\ vals' = vals]_vars

\* A second wrong pick has been made in one Matching presentation whose first
\* wrong pick regressed the item.
C7_Witness ==
    /\ Studying /\ typ.kind = "Matching" /\ typ.failed
    /\ wrongs >= 2
    /\ presented.stage = Matching(TRUE)
    /\ Studied.next_study_type = Matching(FALSE)

\* The stage, colour and footer counts two calls of regress leave against one.
RegressTwiceSame(i) ==
    LET R1 == CardList_regress(List, i)
        R2 == CardList_regress(R1, i)
    IN  R2.cards = R1.cards /\ R2.removed = R1.removed /\ R2.vals = R1.vals

\* C8 as claimed: a second regress never changes what the first one left.
C8_RegressIdempotent == \A i \in DOMAIN cards : RegressTwiceSame(i)

\* C8 as amended: a second regress changes nothing, except for an item at
\* Text(true) with both modes enabled, which the first call leaves at
\* Text(false) in Red and the second moves on to Matching(false) in Black.
C8_RegressIdempotentExceptText1 ==
    \A i \in DOMAIN cards :
        LET R1 == CardList_regress(List, i)
            R2 == CardList_regress(R1, i)
        IN  IF cards[i].next_study_type = Text(TRUE)
               /\ BothModes(recall_settings(cards[i].side))
            THEN /\ StageOf(R1.cards[i]) = [stage |-> Text(FALSE), color |-> Red]
                 /\ StageOf(R2.cards[i]) = [stage |-> Matching(FALSE), color |-> Black]
                 /\ R2.vals = [R1.vals EXCEPT ![Red] = @ - 1, ![Black] = @ + 1]
                 /\ R2.removed = R1.removed
            ELSE RegressTwiceSame(i)

\* A both-modes item presented at Text(true) has been regressed once and sits
\* at Text(false), where a further regress would move it again.
C8_Witness ==
    /\ Studying /\ typ.kind = "TextFailed"
    /\ BothModes(StudiedSettings)
    /\ presented.stage = Text(TRUE)
    /\ Studied.next_study_type = Text(FALSE)
    /\ vals[Red] >= 1

\* The studied item's counter for the mode being asked goes up by one,
\* saturating, and its other counter stays.
FailCounted ==
    LET i == typ.studying
        up(n) == IF n < FailMax THEN n + 1 ELSE FailMax
    IN  /\ i \in DOMAIN cards /\ i \in DOMAIN cards'
        /\ IF typ.kind = "Matching"
           THEN /\ cards'[i].match_fails = up(cards[i].match_fails)
                /\ cards'[i].text_fails = cards[i].text_fails
           ELSE /\ cards'[i].text_fails = up(cards[i].text_fails)
                /\ cards'[i].match_fails = cards[i].match_fails

\* No fail counter of any item changes.
FailsUnchanged ==
    /\ Len(cards') = Len(cards)
    /\ \A i \in DOMAIN cards :
        /\ cards'[i].match_fails = cards[i].match_fails
        /\ cards'[i].text_fails = cards[i].text_fails

WalkIndex(st, rs) ==
    IF \E k \in DOMAIN Walk(rs) : Walk(rs)[k].stage = st
    THEN CHOOSE k \in DOMAIN Walk(rs) : Walk(rs)[k].stage = st
    ELSE 0

\* C10: the override leaves the item as a correct submission would have left
\* it from the stage it was presented at: one stage further on, and removed
\* only when it was presented at the last stage.
C10_OverrideAsCorrect ==
    [][typ.kind = "TextFailed" /\ cards' # cards =>
        LET it == cards[typ.studying]
            rs == recall_settings(it.side)
            k == WalkIndex(presented.stage, rs)
            j == KeyIndex(cards', it.card, it.side)
        IN  IF k = Len(Walk(rs))
            THEN j = NoToken
            ELSE j # NoToken /\ StageOf(cards'[j]) = Walk(rs)[k + 1]]_vars

\* C11: whenever World holds a studying token, the token indexes an active
\* item, and that item is the one the last study_next presented; no handler
\* indexes the list out of range; and the first of the two progress calls of
\* the override never removes, so the second goes through a token that is
\* still good.
C11_TokenFresh ==
    /\ panic # "index"
    /\ typ.kind \in {"Matching", "Text", "TextFailed"} =>
        /\ typ.studying \in DOMAIN cards
        /\ cards[typ.studying].card = presented.card
        /\ cards[typ.studying].side = presented.side
        /\ typ.kind = "TextFailed" =>
            LET P == CardList_progress(List, typ.studying)
            IN  /\ P.err = "none"
                /\ Len(P.cards) = Len(cards)
                /\ P.cards[typ.studying].card = presented.card
                /\ P.cards[typ.studying].side = presented.side

\* A removal has moved the last item into the place of the removed one, and
\* World is studying the moved item through a token issued afterwards.
C11_Witness ==
    /\ Studying
    /\ vals[Green] >= 1
    /\ InitialCount >= 2
    /\ typ.studying = 1
    /\ <<Studied.card, Studied.side>> =
         <<CardList_from_set[InitialCount].card, CardList_from_set[InitialCount].side>>

\* The places of a ledger that hold the item of card key[1], side key[2].
EntriesOf(ledger, key) ==
    {i \in DOMAIN ledger : ledger[i].card = key[1] /\ ledger[i].side = key[2]}

\* The fail counts a ledger holds for that item, added up.
LedgerFails(ledger, key) ==
    SumFails(SelectSeq(ledger, LAMBDA f : f.card = key[1] /\ f.side = key[2]))

\* C12: the ledger never lists an item twice, whatever the order of fails()
\* and progress calls, and the fail counts it holds for an item are never more
\* than the failures that item had.
C12_NoDoubleListing ==
    \A key \in ItemKeys :
        /\ Cardinality(EntriesOf(removed, key)) <= 1
        /\ LedgerFails(removed, key) <= fail_calls[key]

\* What fails() returns when it is called now.
FailsNow == CardList_fails(List).removed

\* C13: an item on which fail was called exactly once, and which has since
\* been removed, is in the result of fails() exactly once, with its card and
\* side, and that entry's total_fails() is 1.
C13_OneFailureOneEntry ==
    \A key \in ItemKeys :
        (fail_calls[key] = 1 /\ KeyIndex(cards, key[1], key[2]) = NoToken) =>
            /\ Cardinality(EntriesOf(FailsNow, key)) = 1
            /\ \A i \in EntriesOf(FailsNow, key) :
                FailedItem_total_fails(FailsNow[i]) = 1

\* An item was answered wrong once and then answered right until it was
\* removed.
C13_Witness ==
    \E key \in ItemKeys :
        /\ fail_calls[key] = 1
        /\ KeyIndex(cards, key[1], key[2]) = NoToken
        /\ EntriesOf(removed, key) # {}

\* C14: an item fail was never called on is neither in the ledger nor in the
\* result of fails(), be it active or removed.
C14_NeverFailedNeverListed ==
    \A key \in ItemKeys :
        fail_calls[key] = 0 =>
            /\ EntriesOf(removed, key) = {}
            /\ EntriesOf(FailsNow, key) = {}

\* Every item has been mastered: one that failed is in the ledger, one that
\* never failed is not.
C14_Witness ==
    /\ InitialCount >= 2
    /\ cards = << >>
    /\ Len(removed) = 1
    /\ \E key \in ItemKeys :
        /\ fail_calls[key] = 0
        /\ recall_settings(key[2]) # [matching |-> FALSE, text |-> FALSE]

\* C15: the number of active items changes only in a call of progress on an
\* item at the last stage of its sequence; that call takes exactly one item
\* away and moves one count from the item's colour into Green. A call of
\* regress, fail, fails(), next_unstudied, matching_answers_for or resize
\* leaves the number as it is.
C15_RemovedOnlyByProgress ==
    [][/\ Len(cards') # Len(cards) =>
            /\ call'.op = "progress"
            /\ LET it == cards[call'.index]
                   w == Walk(recall_settings(it.side))
               IN  /\ it.next_study_type = w[Len(w)].stage
                   /\ Len(cards') = Len(cards) - 1
                   /\ KeyIndex(cards', it.card, it.side) = NoToken
                   /\ vals' = [vals EXCEPT ![it.footer_color] = @ - 1,
                                           ![Green] = @ + 1]
       /\ call'.op \in {"regress", "fail", "fails", "resize", "next_unstudied",
                        "matching_answers_for"} =>
            Len(cards') = Len(cards)]_vars

\* A call of progress has just removed an item from a list that fails() had
\* been called on.
C15_Witness ==
    /\ call.op = "progress"
    /\ Len(cards) < InitialCount
    /\ vals[Green] >= 1
    /\ Len(removed) >= 1

\* Footer counts, by colour.
Buckets(black, red, yellow, green) ==
    [c \in FooterColors |->
        CASE c = Black -> black [] c = Red -> red [] c = Yellow -> yellow
          [] OTHER -> green]

\* next_unstudied returns None, whatever `last` is.
NoneLeft(cs) ==
    \A last \in 0..(MaxItems + 1) :
        next_unstudied(cs, last) = {[token |-> NoToken, samples |-> 0]}

\* C16: a list made of one item with one mode enabled has footer counts
\* {Black:1} while the item is at its first stage, {Yellow:1} after the
\* first progress and {Green:1} after the second, which empties the list, and
\* then next_unstudied returns None.
C16_SingleItemFooter ==
    (InitialCount = 1 /\ ~BothModes(recall_settings(CardList_from_set[1].side))) =>
        LET w == Walk(recall_settings(CardList_from_set[1].side))
            P1 == CardList_progress(List, 1)
            P2 == CardList_progress(P1, 1)
        IN  /\ call = NoCall => vals = Buckets(1, 0, 0, 0)
            /\ (cards # << >> /\ StageOf(cards[1]) = w[1]) =>
                /\ vals = Buckets(1, 0, 0, 0)
                /\ P1.err = "none" /\ Len(P1.cards) = 1
                /\ P1.vals = Buckets(0, 0, 1, 0)
                /\ P2.err = "none" /\ P2.cards = << >>
                /\ P2.vals = Buckets(0, 0, 0, 1)
                /\ NoneLeft(P2.cards)
            /\ (cards # << >> /\ StageOf(cards[1]) = w[2]) =>
                /\ vals = Buckets(0, 0, 1, 0)
                /\ P1.err = "none" /\ P1.cards = << >>
                /\ P1.vals = Buckets(0, 0, 0, 1)
            /\ cards = << >> => vals = Buckets(0, 0, 0, 1) /\ NoneLeft(cards)

\* The second progress has just removed the only item of a one-mode list.
C16_Witness ==
    /\ InitialCount = 1
    /\ ~BothModes(recall_settings(CardList_from_set[1].side))
    /\ call.op = "progress"
    /\ cards = << >>
    /\ vals = Buckets(0, 0, 0, 1)

\* C17: next_unstudied returns None exactly when the list is empty, and a
\* token it returns indexes an active item, whether `last` is None, a token of
\* an active item or an index past the end.
C17_NoneIffEmpty ==
    call.op = "next_unstudied" =>
        /\ call.token = NoToken <=> cards = << >>
        /\ call.token # NoToken => call.token \in DOMAIN cards

\* next_unstudied was given an index past the end of a list of two or more
\* items and returned a token.
C17_Witness ==
    /\ call.op = "next_unstudied"
    /\ Len(cards) >= 2
    /\ call.last = Len(cards) + 1
    /\ call.token \in DOMAIN cards

\* C18: next_unstudied draws at most 12 samples; on a list of two or more
\* items it returns `last` only after 12 samples that all hit `last`; on a
\* list of one item it returns that item.
C18_RepeatOnlyAfterAllSamples ==
    call.op = "next_unstudied" =>
        /\ call.samples <= MaxSamples
        /\ (Len(cards) >= 2 /\ call.token = call.last) => call.samples = MaxSamples
        /\ Len(cards) = 1 => call.token = 1

\* On a list of two or more items all 12 samples hit `last`, and it is
\* returned again.
C18_Witness ==
    /\ call.op = "next_unstudied"
    /\ Len(cards) >= 2
    /\ call.token = call.last
    /\ call.samples = MaxSamples

\* A step in which study_next presents an item.
Presents ==
    /\ typ.kind \in {"WaitingForKeypress", "TextFailed"}
    /\ typ'.kind \in {"Matching", "Text"}

\* C19: when study_next presents an item while two or more items are active
\* and the item presented before is still one of them, it presents that item
\* again only after 12 samples that all selected it.
C19_NoImmediateRepeat ==
    [][(/\ Presents
        /\ Len(cards') >= 2
        /\ KeyIndex(cards', presented.card, presented.side) # NoToken
        /\ presented'.card = presented.card
        /\ presented'.side = presented.side)
            => presented'.samples = MaxSamples]_vars

\* C20: for a set of four or more cards (their display texts being pairwise
\* distinct), the correct answer is in exactly one of the four boxes
\* matching_answers_for returns.
C20_CorrectOnce ==
    (call.op = "matching_answers_for" /\ set.cards >= 4) =>
        Cardinality({i \in 1..4 : call.answers[i] = cards[call.index].card}) = 1

\* The active items of card c and side sd.
ItemsFor(cs, c, sd) == {i \in DOMAIN cs : cs[i].card = c /\ cs[i].side = sd}

\* A side is studied when its settings enable matching or text.
IsUsed(rs) == rs.matching \/ rs.text

\* C21: from_set creates exactly one item per card for each side whose
\* settings enable a mode and none for a side with both disabled; each item
\* starts at Matching(false) when matching is enabled for its side, otherwise
\* at Text(false), Black, with both fail counts zero; the footer starts with
\* as many Black as there are items, and the ledger starts empty.
C21_FromSet ==
    call = NoCall =>
        /\ \A c \in 1..set.cards, sd \in Sides :
            Cardinality(ItemsFor(cards, c, sd)) =
                IF IsUsed(recall_settings(sd)) THEN 1 ELSE 0
        /\ \A i \in DOMAIN cards :
            /\ cards[i].card \in 1..set.cards
            /\ cards[i].side \in Sides
            /\ cards[i].next_study_type =
                 IF recall_settings(cards[i].side).matching
                 THEN Matching(FALSE) ELSE Text(FALSE)
            /\ cards[i].footer_color = Black
            /\ cards[i].match_fails = 0
            /\ cards[i].text_fails = 0
        /\ vals[Black] = Len(cards)
        /\ vals[Red] = 0 /\ vals[Yellow] = 0 /\ vals[Green] = 0
        /\ removed = << >>

\* The list of a set of two or more cards, one side of which enables both
\* modes and the other text only.
C21_Witness ==
    /\ call = NoCall
    /\ set.cards >= 2
    /\ set.recall_t = [matching |-> TRUE, text |-> TRUE]
    /\ set.recall_d = [matching |-> FALSE, text |-> TRUE]
    /\ Len(cards) = 2 * set.cards

\* Nothing has been graded: both tallies are zero on both sides.
NoAttempts ==
    /\ matches_made = [s \in Sides |-> 0]
    /\ texts_entered = [s \in Sides |-> 0]

\* C22: when from_set creates no item (no card, or no mode enabled on either
\* side), World is finished from its construction on and no question is ever
\* presented; every key event returns Break, and no event changes the footer
\* counts, the list, the ledger or the tallies.
C22_NothingToStudy ==
    /\ [](InitialCount = 0 =>
            /\ typ = TypNone
            /\ presented = NotPresented
            /\ ret \in {"None", "Break"}
            /\ cards = << >> /\ removed = << >>
            /\ vals = Footer_new(0)
            /\ NoAttempts
            /\ panic = "none")
    /\ [][InitialCount = 0 =>
            /\ layout' = layout => ret' = "Break"
            /\ UNCHANGED <<typ, cards, removed, vals, matches_made, texts_entered>>]_vars

\* A key was pressed in a session over a set that has cards but enables no
\* mode on either side.
C22_Witness ==
    /\ InitialCount = 0
    /\ set.cards >= 1
    /\ typ = TypNone
    /\ ret = "Break"

\* The smaller of two numbers.
Min(x, y) == IF x < y THEN x ELSE y

\* C23: a FailCount never wraps: inc on 255 leaves 255, a + b is
\* min(255, a + b), has_failed() is true exactly for a nonzero value, and a
\* counter that has failed has still failed after a further inc or add.
C23_NeverWraps ==
    /\ call.a \in 0..FailMax /\ call.b \in 0..FailMax
    /\ FailCount_has_failed(call.a) <=> call.a # 0
    /\ call.op = "inc" =>
        /\ call.a = Min(255, call.was + 1)
        /\ call.was = 255 => call.a = 255
    /\ call.op = "add" => call.a = Min(255, call.was + call.b)
    /\ FailCount_has_failed(call.was) => FailCount_has_failed(call.a)

\* inc was called on a counter at 255.
C23_Witness == call.op = "inc" /\ call.was = 255 /\ call.a = 255

\* C24: a resize event changes the layout only: the footer counts, the items
\* (stage, colour, fail counts), the ledger, the tallies and the pending
\* interaction (typ with its token and failed flag) are as before.
C24_ResizeLayoutOnly ==
    [][layout' # layout =>
        UNCHANGED <<vals, cards, removed, matches_made, texts_entered, typ>>]_vars

\* The terminal has been resized in a session in which an item has been
\* mastered and a failed Matching presentation is pending.
C24_Witness ==
    /\ layout = LayoutOf(<<24, 8>>)
    /\ Studying /\ typ.kind = "Matching" /\ typ.failed
    /\ vals[Green] >= 1
    /\ Studied.match_fails >= 1

\* The bucket of every active item of L holds at least one item: a call of
\* Footer::move on L has a source count of 1 or more.
SourcesHeld(L) == \A i \in DOMAIN L.cards : L.vals[L.cards[i].footer_color] >= 1

\* C25: Footer::move is never called on an empty source bucket. progress and
\* regress move an active item out of the bucket of its own colour, which
\* holds that item; this is so in every state of a session and between the
\* two progress calls of the override; no count ever goes below zero.
C25_NoUnderflow ==
    /\ panic # "underflow"
    /\ \A c \in FooterColors : vals[c] >= 0
    /\ SourcesHeld(List)
    /\ (Studying /\ typ.kind = "TextFailed") =>
        LET P == CardList_progress(List, typ.studying)
        IN  P.err = "none" /\ SourcesHeld(P)

\* A wrong text answer has just moved the only Yellow item into Red.
C25_Witness ==
    /\ Studying /\ typ.kind = "TextFailed"
    /\ presented.stage = Text(TRUE) /\ presented.color = Yellow
    /\ Studied.footer_color = Red
    /\ vals[Yellow] = 0 /\ vals[Red] = 1

\* C26: fail(token) adds one (up to 255) to exactly one counter of the addressed item,
\* match_fails at a Matching stage and text_fails at a Text stage, and leaves
\* the item's stage, colour and other counter, every other item, the ledger
\* and the footer counts as they were.
C26_FailFrame ==
    [][call'.op = "fail" =>
        LET i == call'.index
            it == cards[i]
            matching == it.next_study_type.mode = "Matching"
        IN  /\ panic' = "none"
            /\ cards' = [cards EXCEPT
                 ![i] = [card |-> it.card, side |-> it.side,
                         next_study_type |-> it.next_study_type,
                         footer_color |-> it.footer_color,
                         match_fails |-> IF matching THEN Min(FailMax, it.match_fails + 1)
                                         ELSE it.match_fails,
                         text_fails |-> IF matching THEN it.text_fails
                                        ELSE Min(FailMax, it.text_fails + 1)]]
            /\ removed' = removed
            /\ vals' = vals]_vars

\* fail has just been called on an item at Text(true) in a list of two items.
C26_Witness ==
    /\ call.op = "fail"
    /\ Len(cards) = 2
    /\ cards[call.index].next_study_type = Text(TRUE)
    /\ cards[call.index].text_fails = 1
    /\ cards[call.index].match_fails = 0

\* C27: a key event in WaitingForKeypress, whatever the key, presents an
\* active item in the mode of its stage (Matching with failed = false, or
\* Text), or finishes the session when no item is active; it changes no item,
\* no ledger entry and no footer count.
C27_WaitingAdvances ==
    [][(typ.kind = "WaitingForKeypress" /\ layout' = layout) =>
        /\ IF cards = << >>
           THEN typ' = TypNone
           ELSE /\ typ'.studying \in DOMAIN cards
                /\ typ' \in {TypMatching(typ'.studying, FALSE), TypText(typ'.studying)}
                /\ typ'.kind = cards[typ'.studying].next_study_type.mode
        /\ UNCHANGED <<cards, removed, vals>>]_vars

\* Without any wrong answer an item has been mastered and another is being
\* asked in Text: the "Correct" screen has been dismissed by a key.
C27_Witness ==
    /\ Studying /\ typ.kind = "Text"
    /\ TotalFails = 0
    /\ vals[Green] >= 1

\* C28: key_pressed returns Break exactly when it leaves typ at None with no
\* active item, and Continue otherwise; once typ is None it stays None, every
\* later key event returns Break, and the list, the ledger, the footer counts
\* and the tallies no longer change.
C28_BreakIffFinished ==
    /\ [](/\ ret \in {"None", "Continue", "Break"}
          /\ ret # "None" => (ret = "Break" <=> (typ = TypNone /\ cards = << >>))
          /\ typ = TypNone => cards = << >>)
    /\ [][typ = TypNone =>
            /\ typ' = TypNone
            /\ layout' = layout => ret' = "Break"
            /\ UNCHANGED <<cards, removed, vals, matches_made, texts_entered>>]_vars

\* The last of two or more items has been mastered and the key that dismissed
\* its "Correct" screen returned Break.
C28_Witness ==
    /\ ret = "Break"
    /\ typ = TypNone
    /\ InitialCount >= 2
    /\ vals[Green] = InitialCount

\* The answers graded so far: both tallies, both sides.
Graded ==
    matches_made["Term"] + matches_made["Definition"]
    + texts_entered["Term"] + texts_entered["Definition"]

\* The correct answers one item of a side needs: 3 with both modes, 2 with one,
\* and none for a side that is not studied.
AnswersNeeded(rs) == IF BothModes(rs) THEN 3 ELSE IF IsUsed(rs) THEN 2 ELSE 0

\* The sum of AnswersNeeded over all items from_set creates.
AllAnswersNeeded ==
    set.cards * (AnswersNeeded(set.recall_t) + AnswersNeeded(set.recall_d))

\* C29: as long as no answer has been graded wrong, the list is empty exactly
\* when the graded answers number the sum over all items of 2 (one mode) or 3
\* (both modes), never more; so a session answered correctly throughout is
\* finished after exactly that many graded answers, in whatever order the
\* items were presented.
C29_AllCorrectLength ==
    TotalFails = 0 =>
        /\ Graded <= AllAnswersNeeded
        /\ cards = << >> <=> Graded = AllAnswersNeeded
        /\ typ = TypNone => Graded = AllAnswersNeeded

\* A session over one card, asked by matching and text on one side and by
\* text on the other, has finished without a wrong answer.
C29_Witness ==
    /\ typ = TypNone /\ ret = "Break"
    /\ TotalFails = 0
    /\ set.cards = 1
    /\ set.recall_t = [matching |-> TRUE, text |-> TRUE]
    /\ set.recall_d = [matching |-> FALSE, text |-> TRUE]
    /\ Graded = 5

\* The number of active items of a colour.
ActiveOf(color) == Cardinality({i \in DOMAIN cards : cards[i].footer_color = color})

\* C30: the Black, Red and Yellow counts of the footer are the numbers of
\* active items of those colours, no active item is Green, and the Green count
\* is the number of items removed so far: those created less those active.
C30_CountsMatchItems ==
    /\ vals[Black] = ActiveOf(Black)
    /\ vals[Red] = ActiveOf(Red)
    /\ vals[Yellow] = ActiveOf(Yellow)
    /\ ActiveOf(Green) = 0
    /\ vals[Green] = InitialCount - Len(cards)

\* One of two items has been mastered and the other is in Yellow.
C30_Witness ==
    /\ InitialCount = 2
    /\ Len(cards) = 1
    /\ cards[1].footer_color = Yellow
    /\ vals[Green] = 1 /\ vals[Yellow] = 1

\* The items of a list, whatever their places.
ItemSet(cs) == {cs[i] : i \in DOMAIN cs}

\* C31: in TextFailed the studied item is never at the last stage of its
\* sequence, so the first progress call of the override removes nothing and
\* moves no item: it changes the stage and colour of the item at the token
\* and nothing else. The second call then acts on that same item: it advances
\* or removes it, and every other item is left as it was.
C31_OverrideFirstKeeps ==
    typ.kind = "TextFailed" =>
        /\ typ.studying \in DOMAIN cards
        /\ LET s == typ.studying
               it == cards[s]
               w == Walk(recall_settings(it.side))
               P1 == CardList_progress(List, s)
               P2 == CardList_progress(P1, s)
               others(cs) == {x \in ItemSet(cs) : <<x.card, x.side>> # <<it.card, it.side>>}
           IN  /\ it.next_study_type # w[Len(w)].stage
               /\ P1.err = "none"
               /\ P1.removed = removed
               /\ P1.cards = [cards EXCEPT
                     ![s].next_study_type = P1.cards[s].next_study_type,
                     ![s].footer_color = P1.cards[s].footer_color]
               /\ P1.cards[s].next_study_type # it.next_study_type
               /\ P2.err = "none"
               /\ KeyIndex(P2.cards, it.card, it.side) \in {NoToken, s}
               /\ others(P2.cards) = others(cards)
               /\ Len(P2.cards) >= Len(cards) - 1

\* The override has been used on a both-modes item answered wrong at
\* Text(false): it sits at Text(true) after a single graded text answer, next
\* to another item.
C31_Witness ==
    /\ Len(cards) = 2
    /\ \E i \in DOMAIN cards :
        /\ BothModes(recall_settings(cards[i].side))
        /\ cards[i].next_study_type = Text(TRUE)
        /\ cards[i].text_fails = 1
        /\ texts_entered[cards[i].side] = 1

\* The match_fails, or the text_fails, that the items or entries of s on side
\* sd hold, added up.
RECURSIVE SideFails(_, _, _)
SideFails(s, sd, matching) ==
    IF s = << >> THEN 0
    ELSE (IF Head(s).side # sd THEN 0
          ELSE IF matching THEN Head(s).match_fails ELSE Head(s).text_fails)
         + SideFails(Tail(s), sd, matching)

\* C32: for each side, the match_fails of its items, active and in the
\* ledger, add up to no more than matches_made of that side, and the
\* text_fails to no more than texts_entered.
C32_FailsWithinAttempts ==
    \A sd \in Sides :
        /\ SideFails(cards, sd, TRUE) + SideFails(removed, sd, TRUE) <= matches_made[sd]
        /\ SideFails(cards, sd, FALSE) + SideFails(removed, sd, FALSE) <= texts_entered[sd]

\* An item that failed is in the ledger, another is still active, and on one
\* side one of the two graded text answers was wrong.
C32_Witness ==
    /\ Len(removed) = 1 /\ Len(cards) = 1
    /\ \E sd \in Sides :
        /\ SideFails(removed, sd, FALSE) = 1
        /\ texts_entered[sd] = 2

\* C33: in a Matching presentation that has registered a wrong pick, the
\* correct pick leads to WaitingForKeypress and calls nothing: the items (the
\* studied one at the stage and colour the regression left), the ledger, the
\* footer counts and the tallies are unchanged. matches_made of the item's
\* side went up by one at the first wrong pick and by nothing since.
C33_CorrectAfterWrong ==
    [][typ.kind = "Matching" =>
        /\ (~typ.failed /\ typ'.kind = "Matching" /\ typ'.failed) =>
            matches_made' = [matches_made EXCEPT ![cards[typ.studying].side] = @ + 1]
        /\ (typ.failed /\ layout' = layout) =>
            /\ typ' \in {typ, TypWaiting}
            /\ UNCHANGED <<cards, removed, vals, matches_made, texts_entered>>]_vars

\* The correct choice has been picked after a wrong one in a presentation at
\* Matching(true): the "Correct" screen is up and the item is at
\* Matching(false), where the regression left it.
C33_Witness ==
    /\ typ = TypWaiting
    /\ wrongs >= 1
    /\ presented.stage = Matching(TRUE)
    /\ KeyIndex(cards, presented.card, presented.side) # NoToken
    /\ StageOf(cards[KeyIndex(cards, presented.card, presented.side)])
         = [stage |-> Matching(FALSE), color |-> Black]

\* All match_fails, or all text_fails, of the items and ledger entries of L.
ModeFails(cs, ledger, matching) ==
    SideFails(cs, "Term", matching) + SideFails(cs, "Definition", matching)
    + SideFails(ledger, "Term", matching) + SideFails(ledger, "Definition", matching)

\* C34: an item asked in Matching is at a Matching stage and one asked in
\* Text at a Text stage; the first wrong answer of a presentation is counted
\* in the counter of the mode it was asked in (the later ones are not counted
\* at all), also when that answer regresses a both-modes item from Text(false)
\* to Matching(false); no step of a Matching presentation changes a
\* text_fails and no step of a Text presentation a match_fails.
C34_FailCountedInAskedMode ==
    /\ [](typ.kind \in {"Matching", "Text"} =>
            /\ typ.studying \in DOMAIN cards
            /\ cards[typ.studying].next_study_type.mode = typ.kind)
    /\ [][(wrongs = 0 /\ wrongs' = 1) =>
            LET s == typ.studying
            IN  /\ s \in DOMAIN cards /\ s \in DOMAIN cards'
                /\ typ.kind = "Text" =>
                    /\ cards'[s].text_fails = cards[s].text_fails + 1
                    /\ cards'[s].match_fails = cards[s].match_fails
                /\ typ.kind = "Matching" =>
                    /\ cards'[s].match_fails = cards[s].match_fails + 1
                    /\ cards'[s].text_fails = cards[s].text_fails]_vars
    /\ [][IF typ.kind = "Matching"
           THEN ModeFails(cards', removed', FALSE) = ModeFails(cards, removed, FALSE)
           ELSE typ.kind \in {"Text", "TextFailed"} =>
                ModeFails(cards', removed', TRUE) = ModeFails(cards, removed, TRUE)]_vars

\* A wrong text answer has regressed a both-modes item from Text(false) to
\* Matching(false) and is counted as a text failure.
C34_Witness ==
    /\ Studying /\ typ.kind = "TextFailed"
    /\ presented.stage = Text(FALSE)
    /\ Studied.next_study_type = Matching(FALSE)
    /\ Studied.text_fails = 1
    /\ Studied.match_fails = 0

\* C35: progress and regress change the addressed item only. Every other
\* active item keeps its card, side, stage, colour and fail counts, at its
\* own place or, for the last item when a removal frees a place, at the freed
\* one; the list loses at most the addressed item; the ledger keeps its
\* entries as they were and only grows at the end.
C35_OthersUntouched ==
    [][call'.op \in {"progress", "regress"} =>
        LET i == call'.index
        IN  /\ Len(cards') \in {Len(cards), Len(cards) - 1}
            /\ call'.op = "regress" => Len(cards') = Len(cards)
            /\ \A j \in DOMAIN cards \ {i} :
                IF j \in DOMAIN cards'
                THEN cards'[j] = cards[j]
                ELSE j = Len(cards) /\ cards'[i] = cards[j]
            /\ Len(removed') >= Len(removed)
            /\ SubSeq(removed', 1, Len(removed)) = removed]_vars

\* progress has just removed the first of two items: the other, which has a
\* failure counted, has moved into its place.
C35_Witness ==
    /\ call.op = "progress" /\ call.index = 1
    /\ InitialCount = 2
    /\ Len(cards) = 1
    /\ <<cards[1].card, cards[1].side>> =
         <<CardList_from_set[2].card, CardList_from_set[2].side>>
    /\ cards[1].match_fails + cards[1].text_fails = 1

\* C36: a key event in TextFailed is either the override, which leaves the
\* list two progress calls further on, or changes no item, no ledger entry,
\* no footer count and no tally: it then keeps World in TextFailed on the same
\* item while the text is not an accepted answer, and presents the next item
\* once it is, the failed item staying active where the regression left it.
C36_TextFailedOtherKeys ==
    [][(typ.kind = "TextFailed" /\ layout' = layout) =>
        LET s == typ.studying
            O == CardList_progress(CardList_progress(List, s), s)
        IN  \/ /\ cards' # cards
               /\ cards' = O.cards /\ removed' = O.removed /\ vals' = O.vals
            \/ /\ UNCHANGED <<cards, removed, vals, matches_made, texts_entered>>
               /\ s \in DOMAIN cards
               /\ \/ /\ typ'.kind = "TextFailed"
                     /\ typ'.studying = s
                     /\ ~text_ok'
                     /\ ret' = "Continue"
                  \/ /\ typ'.kind \in {"Matching", "Text"}
                     /\ typ'.studying \in DOMAIN cards
                     /\ ret' = "Continue"]_vars

\* The only answer graded so far was a wrong text; the text was then
\* corrected and an item is presented, the failed one being active at the
\* stage the regression left it at.
C36_Witness ==
    /\ typ.kind \in {"Matching", "Text"}
    /\ Graded = 1
    /\ Len(cards) = InitialCount
    /\ \E i \in DOMAIN cards :
        /\ cards[i].text_fails = 1
        /\ cards[i].next_study_type \in {Matching(FALSE), Text(FALSE)}
        /\ cards[i].footer_color = Black

\* C37: a key event in Matching that is not one of the characters '1' to '4'
\* returns Continue and changes nothing: typ with its token and failed flag,
\* the items, the ledger, the footer counts and the tallies are as before.
C37_OtherKeysIgnored ==
    [][(typ.kind = "Matching"
        /\ call'.op = "key"
        /\ call'.code \notin {"Char1", "Char2", "Char3", "Char4"}) =>
            /\ ret' = "Continue"
            /\ panic' = "none"
            /\ UNCHANGED <<typ, cards, removed, vals, matches_made, texts_entered,
                           text_ok, layout>>]_vars

\* A key that is no choice has been pressed in a Matching presentation that
\* had registered a wrong pick.
C37_Witness ==
    /\ call.op = "key" /\ call.code = "BackTab"
    /\ Studying /\ typ.kind = "Matching" /\ typ.failed
    /\ Studied.match_fails = 1

\* C38: the report lists, under "Fails:", every entry of the ledger whose
\* total fail count is not zero, whichever mode the failures were in: also
\* in a session asked by text only.
C38_FailsListed ==
    \A i \in DOMAIN FailsNow :
        FailedItem_total_fails(FailsNow[i]) > 0 =>
            [count |-> FailedItem_total_fails(FailsNow[i]),
             card |-> FailsNow[i].card, side |-> FailsNow[i].side] \in print_stats_fails

====
